---- MODULE Spec2Model ----
(***************************************************************************)
(* Model of vision_agent/agent/vision_agent.py: the conversation and       *)
(* code-execution loop VisionAgent.chat_with_code, with parse_execution,   *)
(* run_code_action and BoilerplateCode.add_boilerplate.                    *)
(*                                                                         *)
(* Texts are sequences of one-character strings where the code searches or *)
(* slices them (the LLM's response text), and sequences of string tokens   *)
(* elsewhere (message contents, program lines).  An Optional value is <<>> *)
(* for None and <<v>> for the value v.                                     *)
(***************************************************************************)
EXTENDS Integers, Sequences, FiniteSets, TLC

(* ------------------------------ bounds --------------------------------- *)

\* Longest initial transcript handed to chat_with_code.
MaxChat == 1
\* Longest period of the stub LLM: it answers llm[1], llm[2], ... cyclically.
MaxScript == 2
\* Most fragments concatenated into one response text of the parser inputs.
MaxFragments == 5

(* ------------------------- program constants --------------------------- *)

\* self.max_iterations
max_iterations == 100

BEGIN_MARK == <<"<", "e", "x", "e", "c", "u", "t", "e", "_", "p", "y", "t", "h", "o", "n", ">">>
END_MARK == <<"<", "/", "e", "x", "e", "c", "u", "t", "e", "_", "p", "y", "t", "h", "o", "n", ">">>

\* BoilerplateCode.pre_code: one line per element, a line is a sequence of tokens
\* and "{remote_path}" is the replacement field of str.format.
pre_code ==
    << << "from typing import *" >>,
       << "from vision_agent.utils.execute import CodeInterpreter" >>,
       << "from vision_agent.tools.meta_tools import Artifacts, ..." >>,
       << "artifacts = Artifacts('", "{remote_path}", "')" >>,
       << "artifacts.load('", "{remote_path}", "')" >> >>

\* BoilerplateCode.post_code
post_code == << << "artifacts.save()" >> >>

(* --------------------------- Python helpers ---------------------------- *)

Min(a, b) == IF a < b THEN a ELSE b
Max(a, b) == IF a > b THEN a ELSE b

\* sub occurs in s at 0-based offset i
OccursAt(s, sub, i) ==
    /\ i >= 0
    /\ i + Len(sub) <= Len(s)
    /\ \A k \in 1..Len(sub) : s[i + k] = sub[k]

\* str.find from offset i on: the lowest 0-based offset >= i of sub in s, -1 when
\* there is none
RECURSIVE FindFrom(_, _, _)
FindFrom(s, sub, i) ==
    IF i + Len(sub) > Len(s) THEN -1
    ELSE IF OccursAt(s, sub, i) THEN i
    ELSE FindFrom(s, sub, i + 1)

\* str.find
Find(s, sub) == FindFrom(s, sub, 0)

\* the `in` operator on strings
Contains(s, sub) == \E i \in 0..Len(s) : OccursAt(s, sub, i)

\* a slice bound as Python normalises it: negative counts from the end
SliceIndex(s, k) == IF k < 0 THEN Max(Len(s) + k, 0) ELSE Min(k, Len(s))

\* s[lo:]
SliceFrom(s, lo) == SubSeq(s, SliceIndex(s, lo) + 1, Len(s))

\* s[:hi]
SliceTo(s, hi) == SubSeq(s, 1, SliceIndex(s, hi))

(* --------------------------- parse_execution --------------------------- *)

\* A plausible slip: search the end marker in the whole response.
parse_execution_whole(response) ==
    IF Contains(response, BEGIN_MARK)
    THEN LET code == SliceFrom(response, Find(response, BEGIN_MARK) + Len(BEGIN_MARK))
         IN  << SliceTo(code, Find(response, END_MARK)) >>
    ELSE << >>

parse_execution(response) ==
    IF Contains(response, BEGIN_MARK)
    THEN LET code == SliceFrom(response, Find(response, BEGIN_MARK) + Len(BEGIN_MARK))
         IN  << SliceTo(code, Find(code, END_MARK)) >>
    ELSE << >>

(* ------------------------------- data ---------------------------------- *)

None == << >>
Some(v) == << v >>

\* CodeInterpreter.upload_file: the sandbox path a host path is uploaded to
RemoteRef(path) ==
    CASE path = "artifacts.pkl" -> "/home/user/artifacts.pkl"
      [] path = "my.pkl" -> "/home/user/my.pkl"
      [] path = "dog.jpg" -> "/home/user/dog.jpg"
      [] OTHER -> "/home/user/unknown"

\* CodeInterpreter.download_file: the host path a sandbox file is downloaded to
LocalRef(remote) ==
    CASE remote = "/home/user/artifacts.pkl" -> "download/artifacts.pkl"
      [] remote = "/home/user/my.pkl" -> "download/my.pkl"
      [] OTHER -> "download/unknown"

SavePaths == {"artifacts.pkl", "my.pkl"}
HostPaths == SavePaths \cup {LocalRef(RemoteRef(p)) : p \in SavePaths}
SandboxPaths == {RemoteRef(p) : p \in SavePaths} \cup {"other.pkl"}

\* Artifacts.artifacts is a dict: a name maps to its value, or to Absent when the
\* name is no key of the dict.
Absent == "<absent>"
ArtifactNames == {"old.txt", RemoteRef("dog.jpg"), "result.txt"}
NameOrder == << "old.txt", RemoteRef("dog.jpg"), "result.txt" >>
EmptyDict == [n \in ArtifactNames |-> Absent]
Keys(d) == {n \in ArtifactNames : d[n] # Absent}

\* Artifacts(save_path)
Artifacts(save_path) == [save_path |-> save_path, artifacts |-> EmptyDict]

\* Artifacts.show(): the names of the store, never the payloads
show(store) ==
    << "[Artifacts loaded]" >>
        \o SelectSeq(NameOrder, LAMBDA n : n \in Keys(store.artifacts))
        \o << "[End of artifacts]" >>

\* Artifacts.save(): the file at save_path holds the mapping
save(store, fs) == [fs EXCEPT ![store.save_path] = Some(store.artifacts)]

\* Artifacts.load(path): the mapping is replaced by the one the file holds
load(store, fs, path) == [store EXCEPT !.artifacts = fs[path][1]]

(* ------------------------- BoilerplateCode ----------------------------- *)

\* s.format(remote_path=...) on one line
FormatLine(line, remote_path) ==
    [i \in DOMAIN line |-> IF line[i] = "{remote_path}" THEN remote_path ELSE line[i]]

FormatLines(lines, remote_path) ==
    [i \in DOMAIN lines |-> FormatLine(lines[i], remote_path)]

\* The user code: every character of it stands for one statement line.
CodeLines(code) == [i \in DOMAIN code |-> << code[i] >>]

Blank == << >>

add_boilerplate(code, remote_path) ==
    FormatLines(pre_code, remote_path)
        \o << Blank >>
        \o CodeLines(code)
        \o << Blank >>
        \o FormatLines(post_code, remote_path)

(* ------------------- the sandbox's Python interpreter ------------------ *)

\* The interpreter's state while a cell runs: the store object the name
\* `artifacts` is bound to (None before it is bound), the sandbox's files, and
\* whether a statement raised.
CellStart(fs) == [store |-> None, fs |-> fs, err |-> FALSE]

\* One statement.  User statements: "w" is artifacts["result.txt"] = "data",
\* "!" raises, "=" rebinds the name artifacts to a new store with another
\* path; any other character computes without touching the store.
ExecLine(st, line) ==
    IF line = Blank THEN st
    ELSE IF line[1] = "artifacts = Artifacts('"
    THEN [st EXCEPT !.store = Some(Artifacts(line[2]))]
    ELSE IF line[1] = "artifacts.load('"
    THEN IF st.store = None \/ st.fs[line[2]] = None
         THEN [st EXCEPT !.err = TRUE]
         ELSE [st EXCEPT !.store = Some(load(st.store[1], st.fs, line[2]))]
    ELSE IF line[1] = "artifacts.save()"
    THEN IF st.store = None
         THEN [st EXCEPT !.err = TRUE]
         ELSE [st EXCEPT !.fs = save(st.store[1], st.fs)]
    ELSE IF line[1] = "w"
    THEN IF st.store = None
         THEN [st EXCEPT !.err = TRUE]
         ELSE [st EXCEPT !.store = Some([st.store[1] EXCEPT
                                            !.artifacts["result.txt"] = "data"])]
    ELSE IF line[1] = "!"
    THEN [st EXCEPT !.err = TRUE]
    ELSE IF line[1] = "="
    THEN [st EXCEPT !.store = Some(Artifacts("other.pkl"))]
    ELSE st

\* The cell runs line by line and stops at the first statement that raises.
RECURSIVE ExecFrom(_, _, _)
ExecFrom(st, prog, i) ==
    IF i > Len(prog) \/ st.err THEN st
    ELSE ExecFrom(ExecLine(st, prog[i]), prog, i + 1)

\* CodeInterpreter.exec_cell
exec_cell(prog, fs) == ExecFrom(CellStart(fs), prog, 1)

\* Execution.text()
text(result) == IF result.err THEN << "Traceback: Error" >> ELSE << "stdout" >>

(* ------------------------------ inputs --------------------------------- *)

\* Messages a caller may put in the initial transcript.
InputMessages ==
    { [role |-> "user", content |-> << "hi" >>],
      [role |-> "user", content |-> << "count the dogs" >>, media |-> << "dog.jpg" >>],
      [role |-> "system", content |-> << "be brief" >>] }

ChatInputs == UNION {[1..n -> InputMessages] : n \in 0..MaxChat}

\* A store the caller passes in: it holds one artifact.
GivenStore == [save_path |-> "my.pkl", artifacts |-> [EmptyDict EXCEPT !["old.txt"] = "old"]]

NoFiles == [p \in HostPaths |-> None]

\* (artifacts argument, host files) pairs: no store, a store saved to its
\* file, a store never saved.
ArtifactsInputs ==
    { << None, NoFiles >>,
      << Some(GivenStore), save(GivenStore, NoFiles) >>,
      << Some(GivenStore), NoFiles >> }

TalkText == << "h", "i" >>
CodeText(code) == BEGIN_MARK \o code \o END_MARK

\* What the stub LLM may answer (after extract_json): a dict with the keys
\* let_user_respond and response, or with one of them missing.
LLMDecisions ==
    { [let_user_respond |-> FALSE, response |-> CodeText(<< "w" >>)],
      [let_user_respond |-> FALSE, response |-> CodeText(<< "w", "!" >>)],
      [let_user_respond |-> FALSE, response |-> TalkText],
      [let_user_respond |-> TRUE, response |-> TalkText],
      [let_user_respond |-> TRUE, response |-> CodeText(<< "w" >>)],
      [response |-> TalkText],
      [let_user_respond |-> FALSE] }

Scripts == UNION {[1..n -> LLMDecisions] : n \in 1..MaxScript}

(* ------------------------------- state --------------------------------- *)

VARIABLES
    pc,                     \* the statement chat_with_code is at
    chat,                   \* the chat argument
    artifacts,              \* the artifacts argument / local: Optional store
    files,                  \* the host's files: path -> Optional mapping
    sandbox,                \* "none", "acquired" or "released"
    sb_files,               \* the sandbox's files: path -> Optional mapping
    orig_chat,
    int_chat,
    media_list,
    finished,
    iterations,
    last_response,          \* Optional dict
    artifacts_remote_path,
    artifacts_local_path,
    response,               \* Optional dict
    code_action,            \* Optional text
    obs,
    error,                  \* the exception in flight or raised, "" when none
    result,                 \* Optional returned transcript
    llm,                    \* the stub LLM's script
    llm_calls,              \* calls of the LLM so far
    exec_calls,             \* exec_cell calls so far
    llm_out,                \* what the LLM returned in this round and the one before
    prompt,                 \* Optional prompt of the last LLM call
    round_events,           \* the side effects of the current round, in order
    last_exec               \* Optional interpreter state at the end of the last cell

vars ==
    << pc, chat, artifacts, files, sandbox, sb_files, orig_chat, int_chat, media_list,
       finished, iterations, last_response, artifacts_remote_path, artifacts_local_path,
       response, code_action, obs, error, result, llm, llm_calls, exec_calls, llm_out, prompt,
       round_events, last_exec >>

locals == << media_list, finished, iterations, last_response, artifacts_remote_path,
             artifacts_local_path, response, code_action, obs >>
ghosts == << llm_calls, exec_calls, llm_out, prompt, round_events, last_exec >>
transcripts == << orig_chat, int_chat >>

Init ==
    /\ pc = "call"
    /\ chat \in ChatInputs
    /\ \E a \in ArtifactsInputs : artifacts = a[1] /\ files = a[2]
    /\ llm \in Scripts
    /\ sandbox = "none"
    /\ sb_files = [p \in SandboxPaths |-> None]
    /\ orig_chat = << >>
    /\ int_chat = << >>
    /\ media_list = << >>
    /\ finished = FALSE
    /\ iterations = 0
    /\ last_response = None
    /\ artifacts_remote_path = ""
    /\ artifacts_local_path = ""
    /\ response = None
    /\ code_action = None
    /\ obs = << >>
    /\ error = ""
    /\ result = None
    /\ llm_calls = 0
    /\ exec_calls = 0
    /\ llm_out = [cur |-> None, prev |-> None]
    /\ prompt = None
    /\ round_events = << >>
    /\ last_exec = None

\* An exception raised inside the with block (line 172) propagates to the caller:
\* a variant whose context manager does not release the sandbox.
RaiseLeak(e) == pc' = "raised" /\ error' = e /\ UNCHANGED sandbox

\* An exception raised inside the with block (line 172) propagates to the caller
\* through the context manager's exit, which releases the sandbox.
Raise(e) == pc' = "raised" /\ error' = e /\ sandbox' = "released"

(* ------------------------ before the loop ------------------------------ *)

\* A variant that builds and saves the default store before it looks at chat.
CheckChatLate ==
    /\ pc = "call"
    /\ IF artifacts = None
       THEN /\ artifacts' = Some(Artifacts("artifacts.pkl"))
            /\ files' = save(Artifacts("artifacts.pkl"), files)
       ELSE UNCHANGED << artifacts, files >>
    /\ IF chat = << >>
       THEN pc' = "raised" /\ error' = "ValueError"
       ELSE pc' = "new_instance" /\ error' = error
    /\ UNCHANGED << chat, sandbox, sb_files, transcripts, locals, result, llm, ghosts >>

\* lines 165-166
CheckChat ==
    /\ pc = "call"
    /\ IF chat = << >>
       THEN pc' = "raised" /\ error' = "ValueError"
       ELSE pc' = "default_artifacts" /\ error' = error
    /\ UNCHANGED << chat, artifacts, files, sandbox, sb_files, transcripts, locals,
                    result, llm, ghosts >>

\* lines 168-170
DefaultArtifacts ==
    /\ pc = "default_artifacts"
    /\ IF artifacts = None
       THEN /\ artifacts' = Some(Artifacts("artifacts.pkl"))
            /\ files' = save(Artifacts("artifacts.pkl"), files)
       ELSE UNCHANGED << artifacts, files >>
    /\ pc' = "new_instance"
    /\ UNCHANGED << chat, sandbox, sb_files, transcripts, locals, error, result, llm,
                    ghosts >>

\* lines 172-174: the sandbox is acquired, or the factory raises and none is.
NewInstance ==
    /\ pc = "new_instance"
    /\ \/ sandbox' = "acquired" /\ pc' = "prep" /\ error' = error
       \/ sandbox' = sandbox /\ pc' = "raised" /\ error' = "SandboxError"
    /\ UNCHANGED << chat, artifacts, files, sb_files, transcripts, locals, result, llm,
                    ghosts >>

\* lines 180-182 for one message: the text appended for its media
RECURSIVE MediaNames(_, _)
MediaNames(media, i) ==
    IF i > Len(media) THEN << >>
    ELSE << " Media name ", RemoteRef(media[i]) >> \o MediaNames(media, i + 1)

\* lines 178-203 for one message
Shape(c) ==
    IF "media" \in DOMAIN c
    THEN [role |-> c.role, content |-> c.content \o MediaNames(c.media, 1),
          media |-> c.media]
    ELSE [role |-> c.role, content |-> c.content]

\* the uploaded names of all media of the transcript, in order (media_list)
RECURSIVE UploadedMedia(_, _)
UploadedMedia(c, i) ==
    IF i > Len(c) THEN << >>
    ELSE (IF "media" \in DOMAIN c[i]
          THEN [k \in DOMAIN c[i].media |-> RemoteRef(c[i].media[k])]
          ELSE << >>) \o UploadedMedia(c, i + 1)

Range(q) == {q[i] : i \in DOMAIN q}

\* A preparation whose transcripts share the caller's message records (shallow
\* copies): the media text written to the internal transcript shows in all.
PrepChatShared ==
    /\ pc = "prep"
    /\ \/ /\ chat' = [i \in DOMAIN chat |-> Shape(chat[i])]
          /\ orig_chat' = [i \in DOMAIN chat |-> Shape(chat[i])]
          /\ int_chat' = [i \in DOMAIN chat |-> Shape(chat[i])]
          /\ media_list' = UploadedMedia(chat, 1)
          /\ artifacts' = Some([artifacts[1] EXCEPT !.artifacts =
                 [n \in ArtifactNames |->
                     IF n \in Range(UploadedMedia(chat, 1)) THEN "" ELSE @[n]]])
          /\ finished' = FALSE
          /\ iterations' = 0
          /\ last_response' = None
          /\ pc' = "loop"
          /\ UNCHANGED << sandbox, error >>
       \/ /\ \E k \in 1..Len(UploadedMedia(chat, 1)) :
                 artifacts' = Some([artifacts[1] EXCEPT !.artifacts =
                     [n \in ArtifactNames |->
                         IF n \in Range(SubSeq(UploadedMedia(chat, 1), 1, k - 1))
                         THEN "" ELSE @[n]]])
          /\ Raise("UploadError")
          /\ UNCHANGED << chat, transcripts, media_list, finished, iterations,
                          last_response >>
    /\ UNCHANGED << files, sb_files, artifacts_remote_path, artifacts_local_path,
                    response, code_action, obs, result, llm, ghosts >>

\* lines 175-206: the two transcripts, the media entries of the store, the
\* loop's locals.  An upload of a media file may raise.
PrepChat ==
    /\ pc = "prep"
    /\ \/ /\ orig_chat' = chat
          /\ int_chat' = [i \in DOMAIN chat |-> Shape(chat[i])]
          /\ media_list' = UploadedMedia(chat, 1)
          /\ artifacts' = Some([artifacts[1] EXCEPT !.artifacts =
                 [n \in ArtifactNames |->
                     IF n \in Range(UploadedMedia(chat, 1)) THEN "" ELSE @[n]]])
          /\ finished' = FALSE
          /\ iterations' = 0
          /\ last_response' = None
          /\ pc' = "loop"
          /\ UNCHANGED << sandbox, error >>
       \/ /\ \E k \in 1..Len(UploadedMedia(chat, 1)) :
                 \* the k-th upload raises, the media before it are registered
                 artifacts' = Some([artifacts[1] EXCEPT !.artifacts =
                     [n \in ArtifactNames |->
                         IF n \in Range(SubSeq(UploadedMedia(chat, 1), 1, k - 1))
                         THEN "" ELSE @[n]]])
          /\ Raise("UploadError")
          /\ UNCHANGED << transcripts, media_list, finished, iterations, last_response >>
    /\ UNCHANGED << chat, files, sb_files, artifacts_remote_path, artifacts_local_path,
                    response, code_action, obs, result, llm, ghosts >>

(* ------------------------------ the loop ------------------------------- *)

Message(role, content) == [role |-> role, content |-> content]

\* A loop that tests the cap one round late.
LoopCheckLate ==
    /\ pc = "loop"
    /\ IF ~finished /\ iterations <= max_iterations
       THEN pc' = "upload"
       ELSE pc' = "exit"
    /\ round_events' = << >>
    /\ UNCHANGED << chat, artifacts, files, sandbox, sb_files, transcripts, locals,
                    error, result, llm, llm_calls, exec_calls, llm_out, prompt, last_exec >>

\* A loop that raises when the cap stops it.
LoopCheckRaises ==
    /\ pc = "loop"
    /\ IF ~finished /\ iterations < max_iterations
       THEN pc' = "upload" /\ UNCHANGED << sandbox, error >>
       ELSE IF finished
            THEN pc' = "exit" /\ UNCHANGED << sandbox, error >>
            ELSE Raise("IterationLimitReached")
    /\ round_events' = << >>
    /\ UNCHANGED << chat, artifacts, files, sb_files, transcripts, locals,
                    result, llm, llm_calls, exec_calls, llm_out, prompt, last_exec >>

\* line 208: a new round starts, or the loop ends
LoopCheck ==
    /\ pc = "loop"
    /\ IF ~finished /\ iterations < max_iterations
       THEN pc' = "upload"
       ELSE pc' = "exit"
    /\ round_events' = << >>
    /\ UNCHANGED << chat, artifacts, files, sandbox, sb_files, transcripts, locals,
                    error, result, llm, llm_calls, exec_calls, llm_out, prompt, last_exec >>

\* lines 209-211: the host's artifact file is copied into the sandbox
UploadArtifacts ==
    /\ pc = "upload"
    /\ \/ /\ files[artifacts[1].save_path] # None
          /\ artifacts_remote_path' = RemoteRef(artifacts[1].save_path)
          /\ sb_files' = [sb_files EXCEPT ![RemoteRef(artifacts[1].save_path)] =
                              files[artifacts[1].save_path]]
          /\ round_events' = Append(round_events, "upload")
          /\ pc' = "show"
          /\ UNCHANGED << sandbox, error >>
       \/ /\ Raise("UploadError")
          /\ UNCHANGED << artifacts_remote_path, sb_files, round_events >>
    /\ UNCHANGED << chat, artifacts, files, transcripts, media_list, finished, iterations,
                    last_response, artifacts_local_path, response, code_action, obs,
                    result, llm, llm_calls, exec_calls, llm_out, prompt, last_exec >>

\* A loop that shows the artifacts to the LLM in its first round only.
ShowArtifactsOnce ==
    /\ pc = "show"
    /\ IF iterations = 0
       THEN /\ int_chat' = Append(int_chat, Message("observation", show(artifacts[1])))
            /\ orig_chat' = Append(orig_chat, Message("observation", show(artifacts[1])))
       ELSE UNCHANGED transcripts
    /\ pc' = "run_conversation"
    /\ UNCHANGED << chat, artifacts, files, sandbox, sb_files, locals, error, result, llm,
                    ghosts >>

\* lines 212-214
ShowArtifacts ==
    /\ pc = "show"
    /\ int_chat' = Append(int_chat, Message("observation", show(artifacts[1])))
    /\ orig_chat' = Append(orig_chat, Message("observation", show(artifacts[1])))
    /\ pc' = "run_conversation"
    /\ UNCHANGED << chat, artifacts, files, sandbox, sb_files, locals, error, result, llm,
                    ghosts >>

\* run_conversation, lines 58-66: every role must be one of the three
RolesSupported(c) ==
    \A i \in DOMAIN c : c[i].role \in {"user", "observation", "assistant"}

\* run_conversation, lines 59-64: one message as it is put into the conversation
Render(m) ==
    IF m.role = "user" THEN << "USER: " >> \o m.content \o << "\n\n" >>
    ELSE IF m.role = "observation" THEN << "OBSERVATION:\n" >> \o m.content \o << "\n\n" >>
    ELSE << "AGENT: " >> \o m.content \o << "\n\n" >>

\* run_conversation, lines 57-72: the prompt, its conversation field being the
\* rendered messages in order
Prompt(c) ==
    [documentation |-> "META_TOOL_DOCSTRING",
     examples |-> "EXAMPLES_CODE1_ARTIFACT\nEXAMPLES_CODE2_ARTIFACT",
     conversation |-> [i \in DOMAIN c |-> Render(c[i])]]

\* The stub LLM: it answers its script cyclically.
LLMAnswer == llm[(llm_calls % Len(llm)) + 1]

\* line 216 (run_conversation, lines 54-73): the LLM's dict, or an error of the
\* role check, of the LLM call or of extract_json
RunConversation ==
    /\ pc = "run_conversation"
    /\ \/ /\ RolesSupported(int_chat)
          /\ response' = Some(LLMAnswer)
          /\ llm_calls' = llm_calls + 1
          /\ llm_out' = [cur |-> Some(LLMAnswer), prev |-> llm_out.cur]
          /\ prompt' = Some(Prompt(int_chat))
          /\ round_events' = Append(round_events, "llm")
          /\ pc' = "append_response"
          /\ UNCHANGED << sandbox, error >>
       \/ /\ ~RolesSupported(int_chat)
          /\ Raise("ValueError")
          /\ UNCHANGED << response, llm_calls, llm_out, prompt, round_events >>
       \/ /\ RolesSupported(int_chat)
          /\ Raise("LLMError")
          /\ UNCHANGED << response, llm_calls, llm_out, prompt, round_events >>
    /\ UNCHANGED << chat, artifacts, files, sb_files, transcripts, media_list, finished,
                    iterations, last_response, artifacts_remote_path,
                    artifacts_local_path, code_action, obs, result, llm, exec_calls,
                    last_exec >>

\* str(response) of a dict
StrOfBool(b) == IF b THEN "True" ELSE "False"
StrOfDict(d) ==
    << "{" >>
        \o (IF "let_user_respond" \in DOMAIN d
            THEN << "'let_user_respond': ", StrOfBool(d.let_user_respond) >>
            ELSE << >>)
        \o (IF "response" \in DOMAIN d
            THEN << "'response': '" >> \o d.response \o << "'" >>
            ELSE << >>)
        \o << "}" >>

\* lines 219-220
AppendResponse ==
    /\ pc = "append_response"
    /\ int_chat' = Append(int_chat, Message("assistant", StrOfDict(response[1])))
    /\ orig_chat' = Append(orig_chat, Message("assistant", StrOfDict(response[1])))
    /\ pc' = "stall_guard"
    /\ UNCHANGED << chat, artifacts, files, sandbox, sb_files, locals, error, result, llm,
                    ghosts >>

\* response["let_user_respond"] = True
SetLetUserRespond(d) ==
    [k \in DOMAIN d \cup {"let_user_respond"} |->
        IF k = "let_user_respond" THEN TRUE ELSE d[k]]

\* A loop without the stall guard.
StallGuardOff ==
    /\ pc = "stall_guard"
    /\ pc' = "check"
    /\ UNCHANGED << chat, artifacts, files, sandbox, sb_files, transcripts, locals,
                    error, result, llm, ghosts >>

\* lines 222-224
StallGuard ==
    /\ pc = "stall_guard"
    /\ response' = IF last_response = response
                   THEN Some(SetLetUserRespond(response[1]))
                   ELSE response
    /\ pc' = "check"
    /\ UNCHANGED << chat, artifacts, files, sandbox, sb_files, transcripts, media_list,
                    finished, iterations, last_response, artifacts_remote_path,
                    artifacts_local_path, code_action, obs, error, result, llm, ghosts >>

\* A loop that hands back to the user only when the response holds no code.
CheckLetUserRespondCode ==
    /\ pc = "check"
    /\ IF "let_user_respond" \notin DOMAIN response[1]
       THEN Raise("KeyError")
       ELSE /\ pc' = IF /\ response[1].let_user_respond
                        /\ ("response" \notin DOMAIN response[1]
                            \/ parse_execution(response[1].response) = None)
                     THEN "exit" ELSE "parse"
            /\ UNCHANGED << sandbox, error >>
    /\ UNCHANGED << chat, artifacts, files, sb_files, transcripts, locals, result, llm,
                    ghosts >>

\* lines 226-227
CheckLetUserRespond ==
    /\ pc = "check"
    /\ IF "let_user_respond" \notin DOMAIN response[1]
       THEN Raise("KeyError")
       ELSE /\ pc' = IF response[1].let_user_respond THEN "exit" ELSE "parse"
            /\ UNCHANGED << sandbox, error >>
    /\ UNCHANGED << chat, artifacts, files, sb_files, transcripts, locals, result, llm,
                    ghosts >>

\* line 229
ParseExecution ==
    /\ pc = "parse"
    /\ IF "response" \notin DOMAIN response[1]
       THEN Raise("KeyError") /\ UNCHANGED code_action
       ELSE /\ code_action' = parse_execution(response[1].response)
            /\ pc' = "code"
            /\ UNCHANGED << sandbox, error >>
    /\ UNCHANGED << chat, artifacts, files, sb_files, transcripts, media_list, finished,
                    iterations, last_response, artifacts_remote_path,
                    artifacts_local_path, response, obs, result, llm, ghosts >>

\* run_code_action, lines 76-82: the wrapped program runs in the sandbox
run_code_action(code, fs, artifact_remote_path) ==
    exec_cell(add_boilerplate(code, artifact_remote_path), fs)

\* A loop that ends when the response holds no code.
NoCodeActionBreak ==
    /\ pc = "code"
    /\ code_action = None
    /\ pc' = "exit"
    /\ UNCHANGED << chat, artifacts, files, sandbox, sb_files, transcripts, locals,
                    error, result, llm, ghosts >>

\* line 231, no code: nothing runs in this round
NoCodeAction ==
    /\ pc = "code"
    /\ code_action = None
    /\ pc' = "incr"
    /\ UNCHANGED << chat, artifacts, files, sandbox, sb_files, transcripts, locals,
                    error, result, llm, ghosts >>

\* A loop that raises the error the sandbox reports for the executed code.
RunCodeActionRaises ==
    /\ pc = "code"
    /\ code_action # None
    /\ \/ LET r == run_code_action(code_action[1], sb_files, artifacts_remote_path)
          IN  /\ sb_files' = r.fs
              /\ obs' = text(r)
              /\ last_exec' = Some([store |-> r.store, err |-> r.err,
                                    file |-> r.fs[artifacts_remote_path],
                                    round |-> llm_calls])
              /\ exec_calls' = exec_calls + 1
              /\ round_events' = Append(round_events, "exec")
              /\ IF r.err
                 THEN Raise("ExecutionError")
                 ELSE pc' = "download" /\ UNCHANGED << sandbox, error >>
       \/ /\ Raise("SandboxError")
          /\ UNCHANGED << sb_files, obs, last_exec, exec_calls, round_events >>
    /\ UNCHANGED << chat, artifacts, files, transcripts, media_list, finished, iterations,
                    last_response, artifacts_remote_path, artifacts_local_path, response,
                    code_action, result, llm, llm_calls, llm_out, prompt >>

\* lines 231-234: the code runs, or the sandbox call itself raises
RunCodeAction ==
    /\ pc = "code"
    /\ code_action # None
    /\ \/ LET r == run_code_action(code_action[1], sb_files, artifacts_remote_path)
          IN  /\ sb_files' = r.fs
              /\ obs' = text(r)
              /\ last_exec' = Some([store |-> r.store, err |-> r.err,
                                    file |-> r.fs[artifacts_remote_path],
                                    round |-> llm_calls])
              /\ exec_calls' = exec_calls + 1
              /\ round_events' = Append(round_events, "exec")
              /\ pc' = "download"
              /\ UNCHANGED << sandbox, error >>
       \/ /\ Raise("SandboxError")
          /\ UNCHANGED << sb_files, obs, last_exec, exec_calls, round_events >>
    /\ UNCHANGED << chat, artifacts, files, transcripts, media_list, finished, iterations,
                    last_response, artifacts_remote_path, artifacts_local_path, response,
                    code_action, result, llm, llm_calls, llm_out, prompt >>

\* lines 235-237: the sandbox's artifact file is copied to the host
DownloadFile ==
    /\ pc = "download"
    /\ \/ /\ sb_files[artifacts_remote_path] # None
          /\ artifacts_local_path' = LocalRef(artifacts_remote_path)
          /\ files' = [files EXCEPT ![LocalRef(artifacts_remote_path)] =
                           sb_files[artifacts_remote_path]]
          /\ round_events' = Append(round_events, "download")
          /\ pc' = "load"
          /\ UNCHANGED << sandbox, error >>
       \/ /\ Raise("DownloadError")
          /\ UNCHANGED << artifacts_local_path, files, round_events >>
    /\ UNCHANGED << chat, artifacts, sb_files, transcripts, media_list, finished,
                    iterations, last_response, artifacts_remote_path, response,
                    code_action, obs, result, llm, llm_calls, exec_calls, llm_out, prompt,
                    last_exec >>

\* A load that reads the host's own artifact file, not the downloaded one.
LoadArtifactsOwnFile ==
    /\ pc = "load"
    /\ \/ /\ files[artifacts_local_path] # None
          /\ artifacts' = Some(load(artifacts[1], files, artifacts[1].save_path))
          /\ round_events' = Append(round_events, "load")
          /\ pc' = "save"
          /\ UNCHANGED << sandbox, error >>
       \/ /\ Raise("StorageError")
          /\ UNCHANGED << artifacts, round_events >>
    /\ UNCHANGED << chat, files, sb_files, transcripts, locals, result, llm, llm_calls,
                    exec_calls, llm_out, prompt, last_exec >>

\* A load whose failure is recorded but does not stop the round.
LoadArtifactsSwallowed ==
    /\ pc = "load"
    /\ \/ /\ files[artifacts_local_path] # None
          /\ artifacts' = Some(load(artifacts[1], files, artifacts_local_path))
          /\ round_events' = Append(round_events, "load")
          /\ pc' = "save"
          /\ UNCHANGED << sandbox, error >>
       \/ /\ error' = "StorageError"
          /\ pc' = "save"
          /\ UNCHANGED << artifacts, round_events, sandbox >>
    /\ UNCHANGED << chat, files, sb_files, transcripts, locals, result, llm, llm_calls,
                    exec_calls, llm_out, prompt, last_exec >>

\* line 238: the host store takes the downloaded mapping, or the file cannot be
\* read and the store keeps its mapping
LoadArtifacts ==
    /\ pc = "load"
    /\ \/ /\ files[artifacts_local_path] # None
          /\ artifacts' = Some(load(artifacts[1], files, artifacts_local_path))
          /\ round_events' = Append(round_events, "load")
          /\ pc' = "save"
          /\ UNCHANGED << sandbox, error >>
       \/ /\ Raise("StorageError")
          /\ UNCHANGED << artifacts, round_events >>
    /\ UNCHANGED << chat, files, sb_files, transcripts, locals, result, llm, llm_calls,
                    exec_calls, llm_out, prompt, last_exec >>

\* A round that forgets the host-side save.
SaveArtifactsSkipped ==
    /\ pc = "save"
    /\ pc' = "append_obs"
    /\ UNCHANGED << chat, artifacts, files, sandbox, sb_files, transcripts, locals, error,
                    result, llm, ghosts >>

\* line 239
SaveArtifacts ==
    /\ pc = "save"
    /\ files' = save(artifacts[1], files)
    /\ round_events' = Append(round_events, "save")
    /\ pc' = "append_obs"
    /\ UNCHANGED << chat, artifacts, sandbox, sb_files, transcripts, locals, error,
                    result, llm, llm_calls, exec_calls, llm_out, prompt, last_exec >>

\* A loop that shows the execution output to the LLM only.
AppendObsInternal ==
    /\ pc = "append_obs"
    /\ int_chat' = Append(int_chat, Message("observation", obs))
    /\ pc' = "incr"
    /\ UNCHANGED << chat, artifacts, files, sandbox, sb_files, orig_chat, locals, error,
                    result, llm, ghosts >>

\* lines 243-244
AppendObs ==
    /\ pc = "append_obs"
    /\ int_chat' = Append(int_chat, Message("observation", obs))
    /\ orig_chat' = Append(orig_chat, Message("observation", obs))
    /\ pc' = "incr"
    /\ UNCHANGED << chat, artifacts, files, sandbox, sb_files, locals, error, result, llm,
                    ghosts >>

\* lines 246-247
Increment ==
    /\ pc = "incr"
    /\ iterations' = iterations + 1
    /\ last_response' = response
    /\ pc' = "loop"
    /\ UNCHANGED << chat, artifacts, files, sandbox, sb_files, transcripts, media_list,
                    finished, artifacts_remote_path, artifacts_local_path, response,
                    code_action, obs, error, result, llm, ghosts >>

\* line 172: the with block is left normally and the sandbox is released
WithExit ==
    /\ pc = "exit"
    /\ sandbox' = "released"
    /\ pc' = "return"
    /\ UNCHANGED << chat, artifacts, files, sb_files, transcripts, locals, error, result,
                    llm, ghosts >>

\* line 248
Return ==
    /\ pc = "return"
    /\ result' = Some(orig_chat)
    /\ pc' = "done"
    /\ UNCHANGED << chat, artifacts, files, sandbox, sb_files, transcripts, locals, error,
                    llm, ghosts >>

Next ==
    \/ CheckChat
    \/ DefaultArtifacts
    \/ NewInstance
    \/ PrepChat
    \/ LoopCheck
    \/ UploadArtifacts
    \/ ShowArtifacts
    \/ RunConversation
    \/ AppendResponse
    \/ StallGuard
    \/ CheckLetUserRespond
    \/ ParseExecution
    \/ NoCodeAction
    \/ RunCodeAction
    \/ DownloadFile
    \/ LoadArtifacts
    \/ SaveArtifacts
    \/ AppendObs
    \/ Increment
    \/ WithExit
    \/ Return

Spec == Init /\ [][Next]_vars

(* ------------- the parser and the wrapper on many response texts -------- *)

\* What response texts are made of: the markers and one-statement codes.
Fragments == { BEGIN_MARK, END_MARK, << "w" >>, << "!" >> }

\* Codes that rebind the name artifacts before or after writing to the store.
RebindTexts == { CodeText(<< "=", "w" >>), CodeText(<< "w", "=" >>) }

RECURSIVE Concat(_, _)
Concat(parts, i) == IF i > Len(parts) THEN << >> ELSE parts[i] \o Concat(parts, i + 1)

ParseTexts ==
    {Concat(parts, 1) : parts \in UNION {[1..n -> Fragments] : n \in 0..MaxFragments}}
        \cup RebindTexts

\* One call on a one-message transcript, with a stub LLM that always answers
\* the same text and never hands back to the user.
ParseInit ==
    /\ pc = "call"
    /\ chat = << [role |-> "user", content |-> << "hi" >>] >>
    /\ artifacts = None
    /\ files = NoFiles
    /\ llm \in {<< [let_user_respond |-> FALSE, response |-> t] >> : t \in ParseTexts}
    /\ sandbox = "none"
    /\ sb_files = [p \in SandboxPaths |-> None]
    /\ orig_chat = << >>
    /\ int_chat = << >>
    /\ media_list = << >>
    /\ finished = FALSE
    /\ iterations = 0
    /\ last_response = None
    /\ artifacts_remote_path = ""
    /\ artifacts_local_path = ""
    /\ response = None
    /\ code_action = None
    /\ obs = << >>
    /\ error = ""
    /\ result = None
    /\ llm_calls = 0
    /\ exec_calls = 0
    /\ llm_out = [cur |-> None, prev |-> None]
    /\ prompt = None
    /\ round_events = << >>
    /\ last_exec = None

ParseSpec == ParseInit /\ [][Next]_vars

(* ------------------------------ claims --------------------------------- *)

Terminal == {"done", "raised"}

\* The statements a round passes through, last first.
RoundPcs ==
    << "incr", "append_obs", "save", "load", "download", "code", "parse", "check",
       "stall_guard", "append_response", "run_conversation", "show", "upload", "loop" >>

PcIndex(q, x) == CHOOSE i \in DOMAIN q : q[i] = x

\* How far the call is from its end: the rounds left times the length of a
\* round, plus the statements left in the current round.
Measure ==
    CASE pc \in Terminal -> 0
      [] pc = "return" -> 1
      [] pc = "exit" -> 2
      [] pc \in Range(RoundPcs) ->
            (max_iterations - iterations) * Len(RoundPcs) + PcIndex(RoundPcs, pc) + 2
      [] pc = "prep" -> (max_iterations + 2) * Len(RoundPcs) + 1
      [] pc = "new_instance" -> (max_iterations + 2) * Len(RoundPcs) + 2
      [] pc = "default_artifacts" -> (max_iterations + 2) * Len(RoundPcs) + 3
      [] pc = "call" -> (max_iterations + 2) * Len(RoundPcs) + 4

\* The statement the call is at can be executed: the call is never stuck before
\* its end.  (At "parse" and "code" the statement's guard is written out.)
CanStep ==
    CASE pc = "call" -> ENABLED CheckChat
      [] pc = "default_artifacts" -> ENABLED DefaultArtifacts
      [] pc = "new_instance" -> ENABLED NewInstance
      [] pc = "prep" -> ENABLED PrepChat
      [] pc = "loop" -> ENABLED LoopCheck
      [] pc = "upload" -> ENABLED UploadArtifacts
      [] pc = "show" -> ENABLED ShowArtifacts
      [] pc = "run_conversation" -> ENABLED RunConversation
      [] pc = "append_response" -> ENABLED AppendResponse
      [] pc = "stall_guard" -> ENABLED StallGuard
      [] pc = "check" -> ENABLED CheckLetUserRespond
      [] pc = "parse" -> response # None
      [] pc = "code" -> code_action = None \/ artifacts_remote_path # ""
      [] pc = "download" -> ENABLED DownloadFile
      [] pc = "load" -> ENABLED LoadArtifacts
      [] pc = "save" -> ENABLED SaveArtifacts
      [] pc = "append_obs" -> ENABLED AppendObs
      [] pc = "incr" -> ENABLED Increment
      [] pc = "exit" -> ENABLED WithExit
      [] pc = "return" -> ENABLED Return
      [] OTHER -> pc \in Terminal

\* C1: chat_with_code terminates, in at most max_iterations rounds: the LLM is
\* called and code is executed at most max_iterations times, a call that has not
\* ended can always take a step, and every step brings the call closer to its
\* end (the measure is a natural number that every step decreases).
C1_TerminatesWithinCap ==
    /\ [](/\ llm_calls <= max_iterations
          /\ exec_calls <= max_iterations
          /\ iterations <= max_iterations
          /\ Measure >= 0
          /\ CanStep)
    /\ [][Measure' < Measure]_vars

\* C1 witness: a run of a stub LLM that returns code with let_user_respond
\* false on every round has ended at the cap.
C1_CapReached ==
    /\ pc = "done"
    /\ chat # << >>
    /\ llm_calls = max_iterations
    /\ exec_calls = max_iterations

AfterDecisionPcs == {"append_response", "stall_guard", "check", "exit", "return", "done"}
CodeEffects == {"exec", "download", "load", "save"}

\* C2: when the LLM's Decision of a round equals the one of the round before, the
\* loop ends in that round: no code runs in it and no further round starts.
C2_StallGuardStops ==
    (llm_out.prev # None /\ llm_out.cur = llm_out.prev)
        => /\ pc \in AfterDecisionPcs
           /\ Range(round_events) \cap CodeEffects = {}
           /\ llm_calls = iterations + 1

\* C2 witness: the loop has ended in round 2 on a repeated Decision whose own
\* let_user_respond flag was false.
C2_StalledInRoundTwo ==
    /\ pc = "done"
    /\ llm_out.prev # None
    /\ llm_out.cur = llm_out.prev
    /\ llm_out.cur[1].let_user_respond = FALSE
    /\ llm_calls = 2
    /\ iterations = 1

\* C3: a round whose Decision has let_user_respond true ends the loop with no
\* sandbox execution, download, load or save, also when the response holds code.
C3_LetUserRespondStops ==
    (/\ llm_out.cur # None
     /\ "let_user_respond" \in DOMAIN llm_out.cur[1]
     /\ llm_out.cur[1].let_user_respond)
        => /\ pc \in AfterDecisionPcs
           /\ Range(round_events) \cap CodeEffects = {}

\* C3 witness: the call has returned after a Decision with let_user_respond true
\* whose response holds a well-formed code block, and nothing was executed.
C3_StoppedWithCode ==
    /\ pc = "done"
    /\ llm_out.cur # None
    /\ "let_user_respond" \in DOMAIN llm_out.cur[1]
    /\ llm_out.cur[1].let_user_respond
    /\ parse_execution(llm_out.cur[1].response) = Some(<< "w" >>)
    /\ exec_calls = 0

\* C4: with an empty transcript nothing happens but the error: no sandbox, no
\* artifact store or file created, no LLM call, no round.
C4_EmptyChatRejected ==
    chat = << >>
        => /\ pc \in {"call", "raised"}
           /\ (pc = "raised" => error = "ValueError")
           /\ sandbox = "none"
           /\ << artifacts, files >> \in ArtifactsInputs
           /\ llm_calls = 0
           /\ iterations = 0
           /\ orig_chat = << >>

\* C4 witness: the call with an empty transcript and no store has raised.
C4_EmptyChatRaised ==
    chat = << >> /\ artifacts = None /\ pc = "raised" /\ error = "ValueError"

\* C5: no ended call holds the sandbox, and the sandbox is held only inside the
\* with block.
C5_SandboxReleased ==
    /\ (pc \in Terminal \cup {"return"} => sandbox # "acquired")
    /\ (sandbox = "acquired" => pc \notin {"call", "default_artifacts", "new_instance"})

\* C5 witness: the call has ended with the error of a failed artifact load after
\* code was executed, and the sandbox is released.
C5_ReleasedAfterLoadError ==
    /\ pc = "raised"
    /\ error = "StorageError"
    /\ exec_calls > 0
    /\ sandbox = "released"

RoundBoundaryPcs == {"loop", "exit", "return", "done"}

\* C6: at a round boundary the two transcripts have the same length and roles,
\* the appended messages are equal, and an initial message differs only in its
\* content and only when it carries media.
C6_TranscriptsParallel ==
    pc \in RoundBoundaryPcs
        => /\ Len(orig_chat) = Len(int_chat)
           /\ Len(orig_chat) >= Len(chat)
           /\ \A i \in DOMAIN orig_chat :
                 /\ orig_chat[i].role = int_chat[i].role
                 /\ DOMAIN orig_chat[i] = DOMAIN int_chat[i]
                 /\ i > Len(chat) => orig_chat[i] = int_chat[i]
                 /\ (i <= Len(chat) /\ "media" \notin DOMAIN chat[i])
                        => orig_chat[i] = int_chat[i]
                 /\ (i <= Len(chat) /\ "media" \in DOMAIN chat[i])
                        => orig_chat[i].media = int_chat[i].media

\* C6 witness: after a round that executed code the transcripts have grown by
\* three messages each and differ in the content of a media message.
C6_GrownAndShaped ==
    /\ pc = "loop"
    /\ iterations = 1
    /\ Len(orig_chat) = Len(chat) + 3
    /\ Len(int_chat) = Len(chat) + 3
    /\ \E i \in DOMAIN chat : orig_chat[i].content # int_chat[i].content

\* The 0-based offsets at which a marker occurs in a text.
Offsets(t, mark) == {i \in 0..Len(t) : OccursAt(t, mark, i)}
Least(S) == CHOOSE i \in S : \A j \in S : i <= j
FirstBegin(t) == Least(Offsets(t, BEGIN_MARK))
\* The end markers that start at or after the end of the first begin marker.
EndsAfterBegin(t) ==
    {j \in Offsets(t, END_MARK) : j >= FirstBegin(t) + Len(BEGIN_MARK)}
WellFormed(t) == Offsets(t, BEGIN_MARK) # {} /\ EndsAfterBegin(t) # {}
Unterminated(t) == Offsets(t, BEGIN_MARK) # {} /\ EndsAfterBegin(t) = {}

\* The response text of the round the call is in, once it is parsed.
Parsed == pc = "code" /\ "response" \in DOMAIN response[1]

\* C7: for a response with a begin marker and an end marker after it, the parsed
\* code is the text strictly between the first begin marker and the first end
\* marker after it.
C7_CodeBetweenMarkers ==
    (Parsed /\ WellFormed(response[1].response))
        => LET t == response[1].response
           IN  code_action = Some(SubSeq(t, FirstBegin(t) + Len(BEGIN_MARK) + 1,
                                         Least(EndsAfterBegin(t))))

\* C7 witness: a response with an end marker before its first begin marker and
\* a second begin marker after the first pair was parsed to the code of the
\* first pair.
C7_FirstPairTaken ==
    /\ Parsed
    /\ WellFormed(response[1].response)
    /\ Least(Offsets(response[1].response, END_MARK)) < FirstBegin(response[1].response)
    /\ Cardinality(Offsets(response[1].response, BEGIN_MARK)) = 2
    /\ code_action = Some(<< "w" >>)

\* C8: for a response with a begin marker and no end marker after it, the parser
\* returns None and nothing is executed in the round.
C8_UnterminatedIsAbsent ==
    (/\ pc \in {"code", "download"}
     /\ "response" \in DOMAIN response[1]
     /\ Unterminated(response[1].response))
        => code_action = None /\ "exec" \notin Range(round_events)

FullRound == << "upload", "llm", "exec", "download", "load", "save" >>
IsPrefix(p, q) == Len(p) <= Len(q) /\ SubSeq(q, 1, Len(p)) = p

\* C9 as claimed: a round that executed code and is over, by reaching its end or
\* by an error, has had one download, one load and one save after the
\* execution, in that order.
C9_AlwaysReloaded ==
    (pc \in {"incr", "raised"} /\ "exec" \in Range(round_events))
        => round_events = FullRound

\* C9 as amended: the side effects of a round always are, in order, a prefix of
\* upload, LLM call, execution, download, load, save; a round that executed code
\* and reaches its end has had all six; it stops short only when the download or
\* the load raised, and then the call ends with that error; a round without
\* execution has no download, load or save.
C9_ReloadedUnlessError ==
    /\ IsPrefix(round_events, FullRound)
    /\ (pc \in {"append_obs", "incr"} /\ "exec" \in Range(round_events))
           => round_events = FullRound
    /\ (pc = "raised" /\ "exec" \in Range(round_events))
           => \/ error = "DownloadError" /\ round_events = SubSeq(FullRound, 1, 3)
              \/ error = "StorageError" /\ round_events = SubSeq(FullRound, 1, 4)
    /\ "exec" \notin Range(round_events)
           => Range(round_events) \cap {"download", "load", "save"} = {}

\* C9 witness: a second round has executed code and reached its end with the
\* download, the load and the save done.
C9_RoundReloaded ==
    /\ pc = "incr"
    /\ iterations = 1
    /\ round_events = FullRound
    /\ files[artifacts[1].save_path] = Some(artifacts[1].artifacts)

\* C10: after every sandbox execution the shared artifact file holds the store
\* the name artifacts denotes in the sandbox, as the user code left it.
C10_StoreFlushed ==
    (pc = "download" /\ last_exec # None /\ last_exec[1].store # None)
        => sb_files[artifacts_remote_path] = Some(last_exec[1].store[1].artifacts)

\* C11: every media name registered in the host store at loop start is a key of
\* the host store when the call returns.
C11_MediaKept ==
    pc = "done" => \A n \in Range(media_list) : n \in Keys(artifacts[1].artifacts)

\* C12: at every upload of the artifact file and when the call returns, the file
\* at the store's save path holds the host's in-memory mapping.
C12_HostStorePersisted ==
    (pc = "show" \/ pc = "done")
        => files[artifacts[1].save_path] = Some(artifacts[1].artifacts)

Last(q) == q[Len(q)]
ErrorText == << "Traceback: Error" >>
\* The current round has executed code and the sandbox reported an error for it.
RoundErrored ==
    /\ "exec" \in Range(round_events)
    /\ last_exec # None
    /\ last_exec[1].err

\* C13 as claimed: a round in which the sandbox reported an error for the
\* executed code never ends with an error raised to the caller; it ends with the
\* error text as the last message of both transcripts.
C13_ErrorAlwaysObserved ==
    (RoundErrored /\ pc \in {"incr", "raised"})
        => /\ pc = "incr"
           /\ Last(orig_chat) = Message("observation", ErrorText)
           /\ Last(int_chat) = Message("observation", ErrorText)

\* C13 as amended: the sandbox's error is not raised by the execution step and
\* becomes the observation text; a round with such an error ends by raising
\* only when the download or the load of the artifact file raises; otherwise
\* the text is appended to both transcripts, the counter is incremented, below
\* the cap the next round starts, and the prompt of the next round's LLM call
\* holds that observation, followed by the artifact summary.
C13_ErrorObservedUnlessStorageFails ==
    /\ [](/\ (RoundErrored /\ pc = "download") => (error = "" /\ obs = ErrorText)
          /\ (RoundErrored /\ pc = "raised") => error \in {"DownloadError", "StorageError"}
          /\ (RoundErrored /\ pc = "incr")
                => /\ Last(orig_chat) = Message("observation", ErrorText)
                   /\ Last(int_chat) = Message("observation", ErrorText)
          /\ (/\ pc = "append_response"
              /\ last_exec # None
              /\ last_exec[1].err
              /\ llm_calls = last_exec[1].round + 1)
                => LET c == prompt[1].conversation
                   IN  /\ Len(c) = Len(int_chat)
                       /\ c[Len(c) - 1] = Render(Message("observation", ErrorText))
                       /\ c[Len(c)] = Render(Message("observation", show(artifacts[1]))))
    /\ [][/\ pc = "incr" => (iterations' = iterations + 1 /\ pc' = "loop")
          /\ (pc = "loop" /\ iterations < max_iterations) => pc' = "upload"]_vars

\* C13 witness: the LLM was called in round 2 after a round whose code raised in
\* the sandbox.
C13_NextRoundSeesError ==
    /\ pc = "append_response"
    /\ last_exec # None
    /\ last_exec[1].err
    /\ llm_calls = 2
    /\ last_exec[1].round = 1
    /\ iterations = 1
    /\ error = ""

\* C14: for a non-empty transcript, a failed LLM call, an unparsable LLM output
\* and a Decision without let_user_respond or response never end the call by
\* raising.
C14_LLMErrorsNotRaised ==
    (pc = "raised" /\ chat # << >>) => error \notin {"LLMError", "KeyError"}

\* C15: when the host-side load of the downloaded artifact file fails, the
\* error reaches the caller (the call ends raised with that error, no result,
\* the sandbox released), the host store and the host files are those of before
\* the load attempt, the round has performed no save, and no step follows.
C15_FailedLoadPropagates ==
    /\ [](error = "StorageError"
            => /\ pc = "raised"
               /\ result = None
               /\ sandbox = "released"
               /\ round_events = << "upload", "llm", "exec", "download" >>)
    /\ [][/\ (pc = "load" /\ pc' = "raised")
                => /\ error' = "StorageError"
                   /\ artifacts' = artifacts
                   /\ files' = files
                   /\ iterations' = iterations
          /\ pc # "raised"]_vars

\* C15 witness: the load failed in the second round, while the host store held
\* a mapping other than the downloaded file's.
C15_LoadFailedInRoundTwo ==
    /\ pc = "raised"
    /\ error = "StorageError"
    /\ iterations = 1
    /\ files[artifacts_local_path] # Some(artifacts[1].artifacts)

\* C16: the call returns the original transcript: its first Len(chat) messages
\* are the caller's input messages, with no media-name text in their content;
\* the media names are appended to the content in the internal transcript only;
\* no step of the call changes the caller's input.
C16_OriginalReturned ==
    /\ [](pc = "done"
            => /\ result = Some(orig_chat)
               /\ Len(orig_chat) >= Len(chat)
               /\ SubSeq(orig_chat, 1, Len(chat)) = chat
               /\ \A i \in DOMAIN chat :
                     /\ int_chat[i].role = chat[i].role
                     /\ int_chat[i].content =
                            IF "media" \in DOMAIN chat[i]
                            THEN chat[i].content \o MediaNames(chat[i].media, 1)
                            ELSE chat[i].content)
    /\ [][chat' = chat]_vars

\* C16 witness: a call returned whose input had media, so the internal
\* transcript differs from the returned one in an input message.
C16_ReturnedWithMedia ==
    /\ pc = "done"
    /\ Len(result[1]) > Len(chat)
    /\ \E i \in DOMAIN chat :
          /\ "media" \in DOMAIN chat[i]
          /\ int_chat[i].content # result[1][i].content

\* the last message of a transcript that has the given role
LastOfRole(q, role) ==
    q[CHOOSE i \in DOMAIN q :
          /\ q[i].role = role
          /\ \A j \in DOMAIN q : j > i => q[j].role # role]

\* C17: once the counter has reached max_iterations the loop is over without an
\* error: the call is on its way out or has returned, the transcript holds the
\* messages of all max_iterations rounds (two per round and one more per
\* executed code), its last assistant message records let_user_respond false,
\* and the returned value is that transcript.
C17_CapReturnsTranscript ==
    /\ [](iterations = max_iterations
            => /\ pc \in {"loop", "exit", "return", "done"}
               /\ error = ""
               /\ llm_calls = max_iterations
               /\ Len(orig_chat) = Len(chat) + 2 * max_iterations + exec_calls
               /\ LastOfRole(orig_chat, "assistant").content
                      = StrOfDict(last_response[1])
               /\ "let_user_respond" \in DOMAIN last_response[1]
               /\ ~last_response[1].let_user_respond
               /\ SubSeq(LastOfRole(orig_chat, "assistant").content, 2, 3)
                      = << "'let_user_respond': ", "False" >>
               /\ pc = "done" => result = Some(orig_chat))
    /\ [][(pc = "loop" /\ iterations = max_iterations) => pc' = "exit"]_vars

\* C17 witness: a call has returned at the cap after rounds that alternate
\* between running code and plain text.
C17_ReturnedAtCap ==
    /\ pc = "done"
    /\ iterations = max_iterations
    /\ exec_calls = max_iterations \div 2
    /\ result = Some(orig_chat)

\* The LLM's latest Decision has let_user_respond false and a response text
\* without a begin marker.
NoCodeDecision ==
    /\ llm_out.cur # None
    /\ DOMAIN llm_out.cur[1] = {"let_user_respond", "response"}
    /\ ~llm_out.cur[1].let_user_respond
    /\ ~Contains(llm_out.cur[1].response, BEGIN_MARK)
\* ... and the round of that Decision is the current one, not yet counted
InNoCodeRound == NoCodeDecision /\ llm_calls = iterations + 1

\* C18 as claimed: a round whose Decision has let_user_respond false and no
\* begin marker in its response increments the counter and the loop goes on, so
\* the loop is never left in such a round with the round uncounted.
C18_NoCodeRoundAlwaysContinues ==
    (NoCodeDecision /\ pc \in {"exit", "return", "done"}) => iterations = llm_calls

\* C18 as amended: in a round whose Decision has let_user_respond false, has no
\* begin marker in its response and differs from the Decision of the round
\* before, parsing yields no code and nothing is raised; nothing is executed,
\* downloaded, loaded or saved; the host store, the host files and the sandbox
\* files stay as they are after the Decision; the assistant message stays the
\* last message of both transcripts; the counter is incremented by one and
\* control returns to the loop test, which below the cap starts the next round.
C18_NoCodeRoundContinues ==
    /\ []((InNoCodeRound /\ llm_out.cur # llm_out.prev)
            => /\ pc \in {"append_response", "stall_guard", "check", "parse", "code", "incr"}
               /\ error = ""
               /\ round_events = << "upload", "llm" >>
               /\ pc \in {"code", "incr"}
                    => /\ code_action = None
                       /\ Last(orig_chat) = Message("assistant", StrOfDict(llm_out.cur[1]))
                       /\ Last(int_chat) = Last(orig_chat))
    /\ [][(InNoCodeRound /\ llm_out.cur # llm_out.prev)
            => /\ artifacts' = artifacts
               /\ files' = files
               /\ sb_files' = sb_files
               /\ exec_calls' = exec_calls
               /\ pc = "incr"
                    => /\ iterations' = iterations + 1
                       /\ transcripts' = transcripts
                       /\ pc' = "loop"]_vars
    /\ [][(NoCodeDecision /\ pc = "loop" /\ iterations < max_iterations)
            => pc' = "upload"]_vars

\* C18 witness: the second round has started after a first round without code.
C18_NextRoundStarted ==
    /\ pc = "upload"
    /\ NoCodeDecision
    /\ iterations = 1
    /\ llm_calls = 1
    /\ exec_calls = 0
    /\ Len(orig_chat) = Len(chat) + 2

IsShowObs(m) == m.role = "observation" /\ Head(m.content) = "[Artifacts loaded]"
IsExecObs(m) == m.role = "observation" /\ m.content \in {<< "stdout" >>, ErrorText}
IsAssistant(m) == m.role = "assistant"
Count(q, P(_)) == Cardinality({i \in DOMAIN q : P(q[i])})
\* the messages the call has appended to the original transcript
Appended == SubSeq(orig_chat, Len(chat) + 1, Len(orig_chat))

\* C19: between rounds and at the return, the appended messages follow the round
\* pattern: the first is an artifact-show observation, every show observation
\* is followed by an assistant message, every assistant message follows a show
\* observation, an execution observation follows an assistant message and is
\* followed by nothing but the next show observation; there is one assistant
\* message per LLM call and one execution observation per executed code.  The
\* LLM is called at most once per round, with the show observation as the last
\* message.  A returned run of a code round and a stopping round gives
\* observation, assistant, observation, observation, assistant.
C19_RoundPattern ==
    /\ pc \in RoundBoundaryPcs
        => LET q == Appended
           IN  /\ q # << >> => IsShowObs(q[1])
               /\ \A i \in DOMAIN q :
                     /\ IsShowObs(q[i]) \/ IsAssistant(q[i]) \/ IsExecObs(q[i])
                     /\ IsShowObs(q[i]) => (i < Len(q) /\ IsAssistant(q[i + 1]))
                     /\ IsAssistant(q[i]) => (i > 1 /\ IsShowObs(q[i - 1]))
                     /\ IsExecObs(q[i])
                          => /\ i > 1 /\ IsAssistant(q[i - 1])
                             /\ i < Len(q) => IsShowObs(q[i + 1])
               /\ Count(q, IsShowObs) = llm_calls
               /\ Count(q, IsAssistant) = llm_calls
               /\ Count(q, IsExecObs) = exec_calls
    /\ Cardinality({i \in DOMAIN round_events : round_events[i] = "llm"}) <= 1
    /\ pc = "run_conversation" => IsShowObs(Last(int_chat)) /\ IsShowObs(Last(orig_chat))
    /\ (pc = "done" /\ llm_calls = 2 /\ exec_calls = 1)
        => /\ iterations = 1
           /\ [i \in DOMAIN Appended |-> Appended[i].role]
                 = << "observation", "assistant", "observation", "observation",
                      "assistant" >>

\* C19 witness: the call returned after a round that executed code and a round
\* whose Decision had let_user_respond true.
C19_TwoRoundRun ==
    /\ pc = "done"
    /\ llm_calls = 2
    /\ exec_calls = 1
    /\ llm_out.cur[1].let_user_respond
    /\ Len(orig_chat) = Len(chat) + 5
    /\ IsExecObs(orig_chat[Len(chat) + 3])
    /\ "result.txt" \in Range(orig_chat[Len(chat) + 4].content)

\* The round before the current one executed code, and the current round has
\* not called the LLM yet.
AfterCodeRound ==
    /\ last_exec # None
    /\ iterations = last_exec[1].round
    /\ llm_calls = iterations
    /\ pc \in {"loop", "upload", "show", "run_conversation"}

\* C20: in the round after a round that executed code, the host store holds the
\* mapping of the shared artifact file as the sandbox left it, and the host's
\* file holds the same mapping; the file uploaded to the sandbox is that file;
\* the show observation is the summary of that store, so it names every
\* artifact the sandbox code wrote to the shared file.
C20_ShowFromReloadedStore ==
    AfterCodeRound
        => /\ last_exec[1].file # None
           /\ artifacts[1].artifacts = last_exec[1].file[1]
           /\ files[artifacts[1].save_path] = last_exec[1].file
           /\ pc \in {"show", "run_conversation"}
                => sb_files[artifacts_remote_path] = files[artifacts[1].save_path]
           /\ pc = "run_conversation"
                => /\ Last(int_chat) = Message("observation", show(artifacts[1]))
                   /\ Last(orig_chat) = Last(int_chat)
                   /\ \A n \in Keys(last_exec[1].file[1]) :
                         n \in Range(Last(int_chat).content)

\* C20 witness: round 2 is about to call the LLM and its show observation names
\* the artifact that the code of round 1 wrote.
C20_ShowNamesWrittenArtifact ==
    /\ pc = "run_conversation"
    /\ AfterCodeRound
    /\ iterations = 1
    /\ "result.txt" \in Keys(last_exec[1].file[1])
    /\ "result.txt" \in Range(Last(int_chat).content)
    /\ "result.txt" \notin Range(int_chat[Len(chat) + 1].content)

====
